---- MODULE Spec2Model ----
\* A state-machine model of src/src/pathtrace.cu: the per-iteration path
\* tracing pipeline (ray generation, depth loop, final gather), the A-trous
\* denoiser's buffer handling, buffer selection, and the stratified sample
\* index.  Radiance is abstracted to natural numbers, rays to symbolic tuples
\* naming the worker / random engine that produced them.
EXTENDS Integers, Naturals, Sequences, FiniteSets, TLC

\* ------------------------------------------------------------------ bounds
MaxPixels == 2        \* resolutions x*y with at most this many pixels
MaxTraceDepth == 2    \* scene->state.traceDepth ranges over 0..MaxTraceDepth
MaxIter == 2          \* the iteration counter passed to pathtrace runs up to MaxIter
MaxLevels == 2        \* the levels argument of aTrous ranges over 0..MaxLevels
SessionPixels == 1    \* image size of the whole-session specification
SessionTraceDepth == 1
SessionLevels == 0
MaxSqrtSamples == 3    \* sqrtNumStratifiedSamples ranges over 1..MaxSqrtSamples
MaxSamples == 3        \* iterations accumulated into one pixel before the variance is taken
MaxRadiance == 4       \* one iteration's radiance at a pixel ranges over 0..MaxRadiance
DeepTraceDepth == 3    \* trace depth of the runs that follow a path over three bounces

\* ------------------------------------------------------- program constants
BlockDim2d == 8       \* blockSize2d(8, 8)
MissId == -1          \* hitGeomIndex / materialId of a miss

\* ---------------------------------------------------------------- the scene
\* The scene tables uploaded by pathtraceInit: geometry (type, materialid) and
\* materials (type).  A small fixed scene with one of each relevant kind.
SceneGeoms ==
    [g \in 0..2 |->
        CASE g = 0 -> [type |-> "TRIANGLE", materialid |-> 0]
          [] g = 1 -> [type |-> "SPHERE", materialid |-> 1]
          [] OTHER -> [type |-> "TRIANGLE", materialid |-> 2]]

SceneMaterials ==
    [m \in 0..2 |->
        CASE m = 0 -> [type |-> "diffuse"]
          [] m = 1 -> [type |-> "specularReflection"]
          [] OTHER -> [type |-> "emissive"]]

GeomIds == DOMAIN SceneGeoms

VARIABLES
    sortByMaterial, stratifiedSplat, cacheFirstBounce,   \* build toggles
    resolution, traceDepth,                              \* hst_scene->state
    pc,                          \* host position
    iter, lightMis,              \* arguments of the last pathtrace call
    depth, numPaths,             \* locals of pathtrace
    dev_paths, dev_intersections,
    dev_materialSortBuffer, dev_materialSortBuffer2,
    firstBounceCached, dev_firstBounceIntersections,
    dev_directIllum, dev_directIllumSqr,
    dev_indirectIllum, dev_indirectIllumSqr,
    rayWrites,                   \* the (x, y, index) stores of the last generateRayFromCamera launch
    dev_filteredDirectSpecular, dev_filteredIndirectDiffuse, dev_filteredTemp,
    filteredMem,                 \* contents of the three filtered-colour allocations
    aTrousLaunches,              \* the kernels the last aTrous call launched, in order
    dev_stddevBuffer, dev_normalBuffer, dev_positionBuffer,
    dev_samplePool,
    handedOut,                   \* what the last buffer request handed to its caller
    released,                    \* the filtered-colour allocations cudaFree was called on
    indexCall,                   \* the last stratifiedSampleIndex calls and their results
    varianceCall                 \* the last aTrousComputeVariance texel and its result

buildVars == <<sortByMaterial, stratifiedSplat, cacheFirstBounce>>
indexVars == <<indexCall, varianceCall>>
sceneVars == <<resolution, traceDepth>>
callVars == <<iter, lightMis>>
accumVars == <<dev_directIllum, dev_directIllumSqr, dev_indirectIllum, dev_indirectIllumSqr>>
cacheVars == <<firstBounceCached, dev_firstBounceIntersections>>
keyVars == <<dev_materialSortBuffer, dev_materialSortBuffer2>>

handleVars == <<dev_filteredDirectSpecular, dev_filteredIndirectDiffuse, dev_filteredTemp>>
denoiseVars == <<handleVars, filteredMem, aTrousLaunches, dev_stddevBuffer, dev_normalBuffer,
                 dev_positionBuffer, dev_samplePool, handedOut, released>>

vars == <<buildVars, indexVars, sceneVars, callVars, accumVars, cacheVars, keyVars, denoiseVars,
          pc, depth, numPaths, dev_paths, dev_intersections, rayWrites>>

\* --------------------------------------------------------------- helpers
pixelcount == resolution[1] * resolution[2]
Slots == 0..(pixelcount - 1)

Resolutions == {r \in (1..MaxPixels) \X (1..MaxPixels) : r[1] * r[2] <= MaxPixels}

\* Uninitialised device memory (cudaMalloc without memset).
GarbageKey == -2
GarbagePath ==
    [ray |-> <<"garbage", 0, 0, 0>>, colorThroughput |-> 0,
     directAccum |-> 0, indirectAccum |-> 0, pixelIndex |-> -1, lastGeom |-> -1,
     remainingBounces |-> 0, prevBounceNoMis |-> FALSE,
     prevBounceSpecular |-> FALSE, indirectIllum |-> FALSE, hits |-> <<>>]
NoRay == <<"none", 0, 0, 0>>
\* cudaMemset(dev_intersections, 0, ...)
ZeroIntersection == [t |-> 0, materialId |-> 0, hitRay |-> NoRay]

\* The three filtered-colour allocations of pathtraceInit, named by the line
\* of their cudaMalloc.
FilteredAllocs == {"A134", "A135", "A136"}
\* What a filtered-colour allocation holds: the accumulation buffer whose mean
\* was copied in, and the number of filter levels applied since.
GarbageColor == [src |-> "garbage", level |-> 0]
\* What the variance buffer holds: the sum and sum-of-squares it was computed from.
GarbageStddev == [color |-> "garbage", sqr |-> "garbage"]

\* ------------------------------------------------------ 32-bit arithmetic
\* An unsigned 32-bit value is kept as <<high half, low half>>.
U32(hi, lo) == <<hi, lo>>
ToU32(n) == <<n \div 2^16, n % 2^16>>
\* Unsigned addition, wrapping at 2^32.
AddU32(a, b) ==
    LET lo == a[2] + b[2]
    IN  <<(a[1] + b[1] + (lo \div 2^16)) % 2^16, lo % 2^16>>
\* a % n for an unsigned 32-bit a and 0 < n < 2^15.
ModU32(a, n) == (((a[1] % n) * (2^16 % n)) + (a[2] % n)) % n

\* stratifiedSampleIndex(iter, pixelIndex, total), given utilhash(pixelIndex)
\* (an unsigned int): the sum is formed in unsigned 32-bit arithmetic.
stratifiedSampleIndex(it, hash, total) ==
    IF stratifiedSplat
    THEN it % total
    ELSE ModU32(AddU32(ToU32(it), hash), total)

NoIndexCall == [iter |-> 0, total |-> 1, hashA |-> <<0, 0>>, hashB |-> <<0, 0>>, a |-> 0, b |-> 0]

\* ------------------------------------------------------ aTrousComputeVariance
\* A float the kernel stores, kept exactly: num / den when root = 1, the
\* square root of num / den when root = 2 (num >= 0, den > 0).
Exactly(num, den) == [root |-> 1, num |-> num, den |-> den]
SqrtOf(num, den) == [root |-> 2, num |-> num, den |-> den]
\* Whether the stored value v is the rational n / d (d > 0).
ValueIs(v, n, d) ==
    IF v.root = 1
    THEN v.num * d = n * v.den
    ELSE n >= 0 /\ n * n * v.den = v.num * d * d

\* What one thread of aTrousComputeVariance stores for its pixel:
\* sqrt(max(0, (sqr - length2(total) / iter) / (iter - 1))) when iter > 1,
\* that is the root of max(0, iter * sqr - total^2) / (iter * (iter - 1)).
aTrousComputeVarianceTexel(pixColorTotal, pixColorSqrTotal, it) ==
    IF it > 1
    THEN LET q == (it * pixColorSqrTotal) - (pixColorTotal * pixColorTotal)
         IN  SqrtOf(IF q > 0 THEN q ELSE 0, it * (it - 1))
    ELSE Exactly(1, 1)

NoVarianceCall ==
    [samples |-> <<>>, iter |-> 0, total |-> 0, sqr |-> 0, stddev |-> Exactly(0, 1)]

\* makeSeededRandomEngine(iter, index, depth): the engine is a function of
\* the three arguments; it is kept symbolically.
makeSeededRandomEngine(it, index, d) == <<it, index, d>>

\* A draw of the light-sampling estimator from an engine (0 or 1 radiance).
LightSample(rng) == (rng[1] + rng[2] + rng[3]) % 2

\* ------------------------------------------------------------ pathtraceInit
\* The state pathtraceInit leaves, for the scene loaded.
InitState ==
    /\ pc = "idle"
    /\ iter = 0 /\ lightMis = -1
    /\ depth = 0 /\ numPaths = 0
    /\ dev_paths = [i \in Slots |-> GarbagePath]
    /\ dev_intersections = [i \in Slots |-> ZeroIntersection]
    /\ dev_materialSortBuffer = [i \in Slots |-> GarbageKey]
    /\ dev_materialSortBuffer2 = [i \in Slots |-> GarbageKey]
    /\ firstBounceCached = FALSE
    /\ dev_firstBounceIntersections = [i \in Slots |-> ZeroIntersection]
    /\ dev_directIllum = [p \in Slots |-> 0]
    /\ dev_directIllumSqr = [p \in Slots |-> 0]
    /\ dev_indirectIllum = [p \in Slots |-> 0]
    /\ dev_indirectIllumSqr = [p \in Slots |-> 0]
    /\ rayWrites = {}
    /\ dev_filteredDirectSpecular = "A134"
    /\ dev_filteredIndirectDiffuse = "A135"
    /\ dev_filteredTemp = "A136"
    /\ filteredMem = [a \in FilteredAllocs |-> GarbageColor]
    /\ aTrousLaunches = <<>>
    /\ dev_stddevBuffer = GarbageStddev
    /\ dev_normalBuffer = "garbage"
    /\ dev_positionBuffer = "garbage"
    /\ dev_samplePool = "garbage"
    /\ handedOut = "nothing"
    /\ released = <<>>
    /\ indexCall = NoIndexCall
    /\ varianceCall = NoVarianceCall

InitCommon ==
    /\ resolution \in Resolutions
    /\ traceDepth \in 0..MaxTraceDepth
    /\ InitState

\* The toggles as the source sets them.
Init ==
    /\ sortByMaterial = FALSE
    /\ stratifiedSplat = FALSE
    /\ cacheFirstBounce = FALSE
    /\ InitCommon

\* ---------------------------------------------------- generateRayFromCamera
GridDim(n) == (n + BlockDim2d - 1) \div BlockDim2d

Workers ==
    (0..(GridDim(resolution[1]) * BlockDim2d - 1)) \X
    (0..(GridDim(resolution[2]) * BlockDim2d - 1))

\* The early return of the kernel.
RayGenReturns(x, y) == x >= resolution[1] /\ y >= resolution[2]

RayGenIndex(x, y) == x + (y * resolution[1])

CameraSegment(x, y, it, td) ==
    [ray |-> <<"cam", it, x, y>>, colorThroughput |-> 1,
     directAccum |-> 0, indirectAccum |-> 0,
     pixelIndex |-> RayGenIndex(x, y), lastGeom |-> -1,
     remainingBounces |-> td, prevBounceNoMis |-> TRUE,
     prevBounceSpecular |-> TRUE, indirectIllum |-> FALSE, hits |-> <<>>]

RayGenWrites ==
    {<<w[1], w[2], RayGenIndex(w[1], w[2])>> :
        w \in {v \in Workers : ~RayGenReturns(v[1], v[2])}}

\* pathtrace, up to the head of the depth loop; the caller's iteration counter
\* grows from call to call.  Several workers storing to
\* one slot race: the slot keeps the segment of any one of them.  A store
\* past the end of dev_paths either faults (checkCUDAError exits the process)
\* or lands outside the buffers of this model.
GenerateRays ==
    /\ pc = "idle"
    /\ iter' \in (iter + 1)..MaxIter
    /\ lightMis' \in {-1, 0}
    /\ rayWrites' = RayGenWrites
    /\ \E winner \in [Slots -> {<<w[1], w[2]>> : w \in {v \in RayGenWrites : v[3] \in Slots}}] :
        /\ \A i \in Slots : RayGenIndex(winner[i][1], winner[i][2]) = i
        /\ dev_paths' = [i \in Slots |->
                CameraSegment(winner[i][1], winner[i][2], iter', traceDepth)]
    /\ depth' = 0
    /\ numPaths' = pixelcount
    /\ \/ pc' = IF pixelcount > 0 THEN "intersect" ELSE "gather"
       \/ /\ \E w \in RayGenWrites : w[3] \notin Slots
          /\ pc' = "exited"
    /\ UNCHANGED <<buildVars, indexVars, sceneVars, accumVars, cacheVars, keyVars, denoiseVars,
                   dev_intersections>>

\* -------------------------------------------------------- computeIntersections
\* traverseAABBTree, the external nearest-hit primitive: any geometry, or a miss.
TraverseResults == GeomIds \cup {MissId}

\* What computeIntersections stores for one slot, given the traversal result.
\* t is abstracted to its sign (-1 miss, 1 hit); hitRay stands for the
\* distance and normals, which are functions of the ray traced.
IntersectionOf(path, hit) ==
    IF hit = MissId
    THEN [t |-> -1, materialId |-> MissId, hitRay |-> NoRay]
    ELSE [t |-> 1, materialId |-> SceneGeoms[hit].materialid, hitRay |-> path.ray]

\* The tracing part of the loop body: memset, then the cached copy or the
\* kernel (and the store into the first-bounce cache).
IntersectStage ==
    /\ pc = "intersect"
    /\ IF depth = 0 /\ firstBounceCached
       THEN /\ dev_intersections' = dev_firstBounceIntersections
            /\ UNCHANGED <<dev_paths, dev_materialSortBuffer, cacheVars>>
       ELSE \E hits \in [0..(numPaths - 1) -> TraverseResults] :
            /\ dev_paths' = [i \in Slots |->
                    IF i < numPaths THEN [dev_paths[i] EXCEPT !.lastGeom = hits[i]]
                    ELSE dev_paths[i]]
            /\ dev_intersections' = [i \in Slots |->
                    IF i < numPaths THEN IntersectionOf(dev_paths[i], hits[i])
                    ELSE ZeroIntersection]
            /\ dev_materialSortBuffer' = [i \in Slots |->
                    IF i < numPaths THEN IntersectionOf(dev_paths[i], hits[i]).materialId
                    ELSE dev_materialSortBuffer[i]]
            /\ IF cacheFirstBounce /\ depth = 0
               THEN /\ dev_firstBounceIntersections' = dev_intersections'
                    /\ firstBounceCached' = TRUE
               ELSE UNCHANGED cacheVars
    /\ pc' = "sort"
    /\ UNCHANGED <<buildVars, indexVars, sceneVars, callVars, accumVars, denoiseVars, dev_materialSortBuffer2,
                   depth, numPaths, rayWrites>>

\* ------------------------------------------------------------ sort_by_key
Perms(n) ==
    {f \in [0..(n - 1) -> 0..(n - 1)] : \A i, j \in 0..(n - 1) : i # j => f[i] # f[j]}

\* arr with its first n slots rearranged by p.
Rearranged(arr, p, n) == [i \in DOMAIN arr |-> IF i < n THEN arr[p[i]] ELSE arr[i]]

\* thrust::sort_by_key is not stable: any permutation that leaves the first
\* n keys ascending may be applied.
SortPerms(keys, n) ==
    {p \in Perms(n) : \A i, j \in 0..(n - 1) : i < j => keys[p[i]] <= keys[p[j]]}

SortStage ==
    /\ pc = "sort"
    /\ IF sortByMaterial
       THEN \E p1 \in SortPerms(dev_materialSortBuffer, numPaths) :
            \E p2 \in SortPerms(dev_materialSortBuffer, numPaths) :
            /\ dev_materialSortBuffer' = Rearranged(dev_materialSortBuffer, p1, numPaths)
            /\ dev_intersections' = Rearranged(dev_intersections, p1, numPaths)
            /\ dev_materialSortBuffer2' =
                    Rearranged([i \in Slots |->
                        IF i < numPaths THEN dev_materialSortBuffer[i]
                        ELSE dev_materialSortBuffer2[i]], p2, numPaths)
            /\ dev_paths' = Rearranged(dev_paths, p2, numPaths)
       ELSE UNCHANGED <<keyVars, dev_intersections, dev_paths>>
    /\ pc' = "shade"
    /\ UNCHANGED <<buildVars, indexVars, sceneVars, callVars, accumVars, cacheVars, denoiseVars,
                   depth, numPaths, rayWrites>>

\* -------------------------------------------------------------------- shade
\* multipleImportanceSampling (interactions.h): adds the weighted light sample
\* to the indirect or the direct accumulator.
multipleImportanceSampling(path, rng, misIsIndirect) ==
    IF misIsIndirect
    THEN [path EXCEPT !.indirectAccum = @ + path.colorThroughput * LightSample(rng)]
    ELSE [path EXCEPT !.directAccum = @ + path.colorThroughput * LightSample(rng)]

\* scatterRay (interactions.h): a light ends the path, adding its emission
\* when countEmission; any other material continues it with a new ray and one
\* bounce less.
scatterRay(path, mat, rng, countEmission, indirect) ==
    IF mat.type = "emissive"
    THEN [path EXCEPT
            !.directAccum = IF countEmission /\ ~indirect THEN @ + path.colorThroughput ELSE @,
            !.indirectAccum = IF countEmission /\ indirect THEN @ + path.colorThroughput ELSE @,
            !.remainingBounces = 0]
    ELSE [path EXCEPT
            !.ray = <<"bounce", rng[1], rng[2], rng[3]>>,
            !.remainingBounces = @ - 1]

\* A shade kernel that looks at the bounce before this hit only.
MisIsIndirect_LastBounce(path) == ~path.prevBounceSpecular

\* misIsIndirect of shade: whether the light this hit gathers counts as
\* indirect; it becomes the indirectIllum of the path.
MisIsIndirect(path) == path.indirectIllum \/ ~path.prevBounceSpecular

\* The index shade seeds its engine with, for the worker of slot iSelf.
ShadeSeedIndex(iSelf, path) == iSelf

\* The hit branch of shade.  hits is a history of the path the kernel does not
\* keep: the material type at every hit it was shaded at so far.
ShadeHit(iSelf, intersection, path) ==
    LET rng == makeSeededRandomEngine(iter, ShadeSeedIndex(iSelf, path), depth)
        mat == SceneMaterials[intersection.materialId]
        isSpecular == mat.type \in {"specularReflection", "specularTransmission"}
        misIsIndirect == MisIsIndirect(path)
        afterMis == IF lightMis # -1 /\ ~isSpecular
                    THEN multipleImportanceSampling(path, rng, misIsIndirect)
                    ELSE path
        countEmission == \/ depth = 0
                         \/ lightMis = -1
                         \/ SceneGeoms[path.lastGeom].type # "TRIANGLE"
        scattered == scatterRay(afterMis, mat, rng, countEmission, path.indirectIllum)
    IN  [scattered EXCEPT !.indirectIllum = misIsIndirect,
                          !.prevBounceNoMis = isSpecular,
                          !.prevBounceSpecular = isSpecular,
                          !.hits = Append(@, mat.type)]

\* A shade kernel whose miss branch clears the throughput only.
ShadeMiss_ThroughputOnly(path) == [path EXCEPT !.colorThroughput = 0]

ShadeMiss(path) == [path EXCEPT !.colorThroughput = 0, !.remainingBounces = 0]

ShadeSlot(iSelf, intersection, path) ==
    IF intersection.materialId # -1
    THEN ShadeHit(iSelf, intersection, path)
    ELSE ShadeMiss(path)

ShadeStage ==
    /\ pc = "shade"
    /\ dev_paths' = [i \in Slots |->
            IF i < numPaths THEN ShadeSlot(i, dev_intersections[i], dev_paths[i])
            ELSE dev_paths[i]]
    /\ pc' = "partition"
    /\ UNCHANGED <<buildVars, indexVars, sceneVars, callVars, accumVars, cacheVars, keyVars, denoiseVars,
                   depth, numPaths, dev_intersections, rayWrites>>

\* --------------------------------------------------------- thrust::partition
\* A predicate that also keeps paths with no bounces left.
IsRayTravelling_NonNegative(path) == path.remainingBounces >= 0

IsRayTravelling(path) == path.remainingBounces > 0

\* A compaction in the manner of thrust::remove_if: the travelling paths are
\* moved to the front in order and the slots behind them keep what they held.
PartitionResults_RemoveIf(paths, n) ==
    LET alive == {i \in 0..(n - 1) : IsRayTravelling(paths[i])}
        kth(k) == CHOOSE i \in alive : Cardinality({j \in alive : j < i}) = k
    IN  {[i \in DOMAIN paths |-> IF i < Cardinality(alive) THEN paths[kth(i)] ELSE paths[i]]}

\* thrust::partition is not stable: the travelling paths come first, in any
\* order, then the others, in any order.
PartitionResults(paths, n) ==
    {Rearranged(paths, p, n) :
        p \in {q \in Perms(n) :
                \A i, j \in 0..(n - 1) :
                    (i < j /\ IsRayTravelling(paths[q[j]])) => IsRayTravelling(paths[q[i]])}}

PartitionPoint(paths, n) == Cardinality({i \in 0..(n - 1) : IsRayTravelling(paths[i])})

\* The compaction and the step of the for loop (++depth, numPaths > 0).
PartitionStage ==
    /\ pc = "partition"
    /\ dev_paths' \in PartitionResults(dev_paths, numPaths)
    /\ numPaths' = PartitionPoint(dev_paths, numPaths)
    /\ depth' = depth + 1
    /\ pc' = IF numPaths' > 0 THEN "intersect" ELSE "gather"
    /\ UNCHANGED <<buildVars, indexVars, sceneVars, callVars, accumVars, cacheVars, keyVars, denoiseVars,
                   dev_intersections, rayWrites>>

\* The sample pool of pathtraceInit holds traceDepth * numStratifiedSamples
\* records; shade at the current depth is handed the slice that starts at
\* dev_samplePool + depth * numStratifiedSamples and indexes it below
\* numStratifiedSamples.
SamplePoolSize(numStratifiedSamples) == traceDepth * numStratifiedSamples
ShadeSliceStart(numStratifiedSamples) == depth * numStratifiedSamples

\* ---------------------------------------------------------------- finalGather
RECURSIVE SumSet(_, _)
SumSet(S, arr) ==
    IF S = {} THEN 0
    ELSE LET x == CHOOSE y \in S : TRUE
         IN  arr[x] + SumSet(S \ {x}, arr)

\* A gather that adds into the pixel numbered like the slot.
GatherTarget_Slot(index, iterationPath) == index

\* The pixel the worker of slot index adds into.
GatherTarget(index, iterationPath) == iterationPath.pixelIndex

\* The slots whose worker adds into pixel p.
Adders(p) == {i \in Slots : GatherTarget(i, dev_paths[i]) = p}

\* The adds are plain read-modify-writes.  Of the workers that add into one
\* pixel of one buffer, any non-empty subset may take effect (the others are
\* overwritten).  A choice maps every pixel to the slots whose add survives.
GatherChoices ==
    {T \in [Slots -> SUBSET Slots] :
        \A p \in Slots : T[p] \subseteq Adders(p) /\ (Adders(p) # {} => T[p] # {})}

\* A gather that stores instead of adding.
Gathered_Store(buf, T, contrib) == [p \in Slots |-> SumSet(T[p], contrib)]

Gathered(buf, T, contrib) == [p \in Slots |-> buf[p] + SumSet(T[p], contrib)]

\* The values one accumulation buffer may hold after the kernel: one value
\* when no two workers add into the same pixel.
GatherOutcomes(buf, contrib) ==
    IF \A p \in Slots : Cardinality(Adders(p)) <= 1
    THEN {Gathered(buf, [p \in Slots |-> Adders(p)], contrib)}
    ELSE {Gathered(buf, T, contrib) : T \in GatherChoices}

\* glm::length2 of the (scalar) radiance.
length2(v) == v * v

FinalGather ==
    /\ pc = "gather"
    /\ dev_directIllum' \in
            GatherOutcomes(dev_directIllum, [i \in Slots |-> dev_paths[i].directAccum])
    /\ dev_directIllumSqr' \in
            GatherOutcomes(dev_directIllumSqr,
                           [i \in Slots |-> length2(dev_paths[i].directAccum)])
    /\ dev_indirectIllum' \in
            GatherOutcomes(dev_indirectIllum, [i \in Slots |-> dev_paths[i].indirectAccum])
    /\ dev_indirectIllumSqr' \in
            GatherOutcomes(dev_indirectIllumSqr,
                           [i \in Slots |-> length2(dev_paths[i].indirectAccum)])
    /\ pc' = "idle"
    /\ UNCHANGED <<buildVars, indexVars, sceneVars, callVars, cacheVars, keyVars, denoiseVars,
                   depth, numPaths, dev_paths, dev_intersections, rayWrites>>

\* ------------------------------------------------------------- BufferType
\* The enumerators of BufferType, and one value of the underlying type that
\* is none of them.
BufferTypes ==
    {"DirectSpecularIllumination", "IndirectDiffuseIllumination",
     "DirectSpecularIlluminationVariance", "IndirectDiffuseIlluminationVariance",
     "FullIllumination", "Normal", "Position",
     "FilteredDirectSpecular", "FilteredIndirectDiffuse", "FilteredColor"}
BufferIds == BufferTypes \cup {"Unmapped"}

\* ---------------------------------------------------------------- getBuffers
\* The two pointers getBuffers leaves in *buf1 and *buf2.  *buf1 is the
\* caller's uninitialised local ("unset") when no case assigns it.
getBuffers(buf) ==
    CASE buf = "DirectSpecularIlluminationVariance" ->
            [buf1 |-> "dev_directIllum", buf2 |-> "dev_directIllumSqr"]
      [] buf = "DirectSpecularIllumination" ->
            [buf1 |-> "dev_directIllum", buf2 |-> "nullptr"]
      [] buf = "IndirectDiffuseIlluminationVariance" ->
            [buf1 |-> "dev_indirectIllum", buf2 |-> "dev_indirectIllumSqr"]
      [] buf = "IndirectDiffuseIllumination" ->
            [buf1 |-> "dev_indirectIllum", buf2 |-> "nullptr"]
      [] buf = "FullIllumination" ->
            [buf1 |-> "dev_directIllum", buf2 |-> "dev_indirectIllum"]
      [] buf = "Normal" -> [buf1 |-> "dev_normalBuffer", buf2 |-> "nullptr"]
      [] buf = "Position" -> [buf1 |-> "dev_positionBuffer", buf2 |-> "nullptr"]
      [] buf = "FilteredDirectSpecular" ->
            [buf1 |-> dev_filteredDirectSpecular, buf2 |-> "nullptr"]
      [] buf = "FilteredIndirectDiffuse" ->
            [buf1 |-> dev_filteredIndirectDiffuse, buf2 |-> "nullptr"]
      [] buf = "FilteredColor" ->
            [buf1 |-> dev_filteredDirectSpecular, buf2 |-> dev_filteredIndirectDiffuse]
      [] OTHER -> [buf1 |-> "unset", buf2 |-> "nullptr"]

\* The cases of the switch in processTexel; control flows off the end of the
\* function for any other value.
processTexelHandles(bufType) == bufType \in BufferTypes

sessionRest == <<buildVars, indexVars, sceneVars, callVars, accumVars, cacheVars, keyVars,
                 depth, numPaths, dev_paths, dev_intersections, rayWrites>>

\* Whether a request for buf reads only assigned handles and returns a
\* defined pixel.
Defined(buf) == getBuffers(buf).buf1 # "unset" /\ processTexelHandles(buf)

\* A caller's getBuffers request.
GetBuffers ==
    /\ pc = "idle"
    /\ \E buf \in BufferIds :
        handedOut' = IF getBuffers(buf).buf1 # "unset" THEN "defined" ELSE "undefined"
    /\ UNCHANGED <<sessionRest, pc, handleVars, filteredMem, aTrousLaunches, dev_stddevBuffer,
                   dev_normalBuffer, dev_positionBuffer, dev_samplePool, released>>

\* sendBufferToPbo and saveBufferState: getBuffers, then a kernel that reads
\* buf1 (and buf2) through processTexel.  With buf1 unset the kernel reads
\* through a wild pointer: it hands out undefined pixels, or the device faults
\* and the next checkCUDAError ends the process.
PushOrSave ==
    \E buf \in BufferIds :
        /\ handedOut' = IF Defined(buf) THEN "defined" ELSE "undefined"
        /\ \/ pc' = pc
           \/ /\ ~Defined(buf)
              /\ pc' = "faulted"

sendBufferToPbo ==
    /\ pc = "idle"
    /\ PushOrSave
    /\ UNCHANGED <<sessionRest, handleVars, filteredMem, aTrousLaunches, dev_stddevBuffer,
                   dev_normalBuffer, dev_positionBuffer, dev_samplePool, released>>

saveBufferState ==
    /\ pc = "idle"
    /\ PushOrSave
    /\ UNCHANGED <<sessionRest, handleVars, filteredMem, aTrousLaunches, dev_stddevBuffer,
                   dev_normalBuffer, dev_positionBuffer, dev_samplePool, released>>

\* checkCUDAError in whichever operation runs next after a device fault.
DetectFault ==
    /\ pc = "faulted"
    /\ pc' = "exited"
    /\ UNCHANGED <<sessionRest, denoiseVars>>

\* ------------------------------------------------------------------- aTrous
aTrousPrepare ==
    /\ pc = "idle"
    /\ dev_normalBuffer' = "gbuffer"
    /\ dev_positionBuffer' = "gbuffer"
    /\ UNCHANGED <<sessionRest, pc, handleVars, filteredMem, aTrousLaunches, dev_stddevBuffer,
                   dev_samplePool, handedOut, released>>

\* The if / else-if chain of aTrous: the buffers read, and the handle the
\* result goes through; "abort" for the final else.
aTrousSelect(buf) ==
    IF buf = "DirectSpecularIllumination"
    THEN [colorBuf |-> "dev_indirectIllum", colorSqrBuf |-> "dev_indirectIllumSqr",
          resultBuf |-> "dev_filteredIndirectDiffuse"]
    ELSE IF buf = "IndirectDiffuseIllumination"
    THEN [colorBuf |-> "dev_directIllum", colorSqrBuf |-> "dev_directIllumSqr",
          resultBuf |-> "dev_filteredDirectSpecular"]
    ELSE [colorBuf |-> "unset", colorSqrBuf |-> "unset", resultBuf |-> "abort"]

\* aTrousCopyBuffer: the target holds the mean of accumBuf.
aTrousCopyBuffer(mem, accumBuf, target) ==
    [mem EXCEPT ![target] = [src |-> accumBuf, level |-> 0]]

\* aTrousComputeVariance: what the variance buffer is computed from.
aTrousComputeVariance(colorTotal, colorSqr) == [color |-> colorTotal, sqr |-> colorSqr]

\* The launch of aTrousCopyBuffer: the accumulation buffer read and the
\* allocation written.
CopyLaunch(accumBuf, target) ==
    [kernel |-> "aTrousCopyBuffer", reads |-> accumBuf, writes |-> target,
     input |-> GarbageColor, stepSize |-> <<0, 1>>]

\* The launch of aTrousIter at one level: the allocation read (color), what
\* it held, the allocation written (colorOut) and the step size, as a
\* fraction <<numerator, denominator>> of radius.
IterLaunch(st) ==
    [kernel |-> "aTrousIter", reads |-> st.res, writes |-> st.tmp,
     input |-> st.mem[st.res], stepSize |-> st.stepSize]

\* The filter loop from level i on; st holds *resultBuf, dev_filteredTemp,
\* stepSize, the contents of the allocations and the launches so far.  Each
\* level filters *resultBuf into dev_filteredTemp, doubles stepSize and swaps
\* the two handles.
RECURSIVE aTrousLevels(_, _, _)
aTrousLevels(i, levels, st) ==
    IF i >= levels THEN st
    ELSE aTrousLevels(i + 1, levels,
            [res |-> st.tmp, tmp |-> st.res,
             stepSize |-> <<st.stepSize[1] * 2, st.stepSize[2]>>,
             launches |-> Append(st.launches, IterLaunch(st)),
             mem |-> [st.mem EXCEPT ![st.tmp] =
                        [src |-> st.mem[st.res].src, level |-> st.mem[st.res].level + 1]]])

\* One call aTrous(buf, levels, ...).
aTrousCall(buf, levels) ==
    /\ pc = "idle"
    /\ LET sel == aTrousSelect(buf)
       IN  IF sel.resultBuf = "abort"
           THEN /\ pc' = "aborted"
                /\ UNCHANGED <<handleVars, filteredMem, aTrousLaunches, dev_stddevBuffer>>
           ELSE LET res0 == IF sel.resultBuf = "dev_filteredIndirectDiffuse"
                            THEN dev_filteredIndirectDiffuse
                            ELSE dev_filteredDirectSpecular
                    fin == aTrousLevels(0, levels,
                               [res |-> res0, tmp |-> dev_filteredTemp,
                                stepSize |-> <<1, 2 * (2 ^ levels)>>,
                                launches |-> <<CopyLaunch(sel.colorBuf, res0)>>,
                                mem |-> aTrousCopyBuffer(filteredMem, sel.colorBuf, res0)])
                IN  /\ pc' = pc
                    /\ filteredMem' = fin.mem
                    /\ aTrousLaunches' = fin.launches
                    /\ dev_stddevBuffer' = aTrousComputeVariance(sel.colorBuf, sel.colorSqrBuf)
                    /\ dev_filteredTemp' = fin.tmp
                    /\ IF sel.resultBuf = "dev_filteredIndirectDiffuse"
                       THEN /\ dev_filteredIndirectDiffuse' = fin.res
                            /\ UNCHANGED dev_filteredDirectSpecular
                       ELSE /\ dev_filteredDirectSpecular' = fin.res
                            /\ UNCHANGED dev_filteredIndirectDiffuse
    /\ UNCHANGED <<sessionRest, dev_normalBuffer, dev_positionBuffer, dev_samplePool,
                   handedOut, released>>

aTrous == \E buf \in BufferIds : \E levels \in 0..MaxLevels : aTrousCall(buf, levels)

\* The same operation with the shallower filter of the whole-session runs.
aTrousShallow == \E buf \in BufferIds : \E levels \in 0..SessionLevels : aTrousCall(buf, levels)

\* ------------------------------------------------- updateStratifiedSamples
updateStratifiedSamples ==
    /\ pc = "idle"
    /\ dev_samplePool' = "loaded"
    /\ UNCHANGED <<sessionRest, pc, handleVars, filteredMem, aTrousLaunches, dev_stddevBuffer,
                   dev_normalBuffer, dev_positionBuffer, handedOut, released>>

\* ------------------------------------------------------------ pathtraceFree
pathtraceFree ==
    /\ pc = "idle"
    /\ pc' = "freed"
    /\ released' = <<dev_filteredDirectSpecular, dev_filteredIndirectDiffuse, dev_filteredTemp>>
    /\ UNCHANGED <<sessionRest, handleVars, filteredMem, aTrousLaunches, dev_stddevBuffer,
                   dev_normalBuffer, dev_positionBuffer, dev_samplePool, handedOut>>

\* pathtraceInit called again, with the same scene: a new session.
pathtraceInit ==
    /\ pc \in {"idle", "freed"}
    /\ pc' = "idle"
    /\ iter' = 0 /\ lightMis' = -1
    /\ depth' = 0 /\ numPaths' = 0
    /\ dev_paths' = [i \in Slots |-> GarbagePath]
    /\ dev_intersections' = [i \in Slots |-> ZeroIntersection]
    /\ dev_materialSortBuffer' = [i \in Slots |-> GarbageKey]
    /\ dev_materialSortBuffer2' = [i \in Slots |-> GarbageKey]
    /\ firstBounceCached' = FALSE
    /\ dev_firstBounceIntersections' = [i \in Slots |-> ZeroIntersection]
    /\ dev_directIllum' = [p \in Slots |-> 0]
    /\ dev_directIllumSqr' = [p \in Slots |-> 0]
    /\ dev_indirectIllum' = [p \in Slots |-> 0]
    /\ dev_indirectIllumSqr' = [p \in Slots |-> 0]
    /\ rayWrites' = {}
    /\ dev_filteredDirectSpecular' = "A134"
    /\ dev_filteredIndirectDiffuse' = "A135"
    /\ dev_filteredTemp' = "A136"
    /\ filteredMem' = [a \in FilteredAllocs |-> GarbageColor]
    /\ aTrousLaunches' = <<>>
    /\ dev_stddevBuffer' = GarbageStddev
    /\ dev_normalBuffer' = "garbage"
    /\ dev_positionBuffer' = "garbage"
    /\ dev_samplePool' = "garbage"
    /\ handedOut' = "nothing"
    /\ released' = <<>>
    /\ UNCHANGED <<buildVars, indexVars, sceneVars>>

\* ----------------------------------------------------------- specifications
\* One render iteration after another, with the toggles as built.
Next ==
    \/ GenerateRays
    \/ IntersectStage
    \/ SortStage
    \/ ShadeStage
    \/ PartitionStage
    \/ FinalGather

Spec == Init /\ [][Next]_vars

\* The same with the material sort and the first-bounce cache each built in
\* or left out.
InitToggles ==
    /\ sortByMaterial \in BOOLEAN
    /\ cacheFirstBounce \in BOOLEAN
    /\ stratifiedSplat = FALSE
    /\ InitCommon

SpecToggles == InitToggles /\ [][Next]_vars

\* A whole session on a small image: every operation of the interface.
InitSession ==
    /\ Init
    /\ resolution[1] * resolution[2] <= SessionPixels
    /\ traceDepth <= SessionTraceDepth

NextSession ==
    \/ Next
    \/ GetBuffers
    \/ sendBufferToPbo
    \/ saveBufferState
    \/ DetectFault
    \/ aTrousPrepare
    \/ aTrousShallow
    \/ updateStratifiedSamples
    \/ pathtraceFree
    \/ pathtraceInit

SpecSession == InitSession /\ [][NextSession]_vars

\* The denoiser and the buffer requests alone, before any iteration is rendered.
NextDenoise ==
    \/ GetBuffers
    \/ sendBufferToPbo
    \/ saveBufferState
    \/ DetectFault
    \/ aTrousPrepare
    \/ aTrous
    \/ updateStratifiedSamples
    \/ pathtraceFree
    \/ pathtraceInit

SpecDenoise == InitSession /\ [][NextDenoise]_vars

\* stratifiedSampleIndex on its own: two pixels of one iteration, for either
\* setting of stratifiedSplat.
IterValues == {0, 1, 2, 2^16, 2^30 + (2^30 - 1)}
HashValues == {U32(0, 0), U32(0, 1), U32(0, 5), U32(2^15, 0), U32(2^16 - 1, 2^16 - 2),
               U32(2^16 - 1, 2^16 - 1)}

InitIndex ==
    /\ sortByMaterial = FALSE
    /\ cacheFirstBounce = FALSE
    /\ stratifiedSplat \in BOOLEAN
    /\ InitCommon
    /\ resolution = <<1, 1>>
    /\ traceDepth = 0

StratifiedIndexCalls ==
    /\ \E it \in IterValues : \E hA \in HashValues : \E hB \in HashValues :
       \E sqrtNumStratifiedSamples \in 1..MaxSqrtSamples :
        LET total == sqrtNumStratifiedSamples * sqrtNumStratifiedSamples
        IN  indexCall' = [iter |-> it, total |-> total, hashA |-> hA, hashB |-> hB,
                          a |-> stratifiedSampleIndex(it, hA, total),
                          b |-> stratifiedSampleIndex(it, hB, total)]
    /\ UNCHANGED <<buildVars, sceneVars, callVars, accumVars, cacheVars, keyVars,
                   denoiseVars, pc, depth, numPaths, dev_paths, dev_intersections,
                   rayWrites, varianceCall>>

SpecIndex == InitIndex /\ [][StratifiedIndexCalls]_vars

\* aTrousComputeVariance on its own: one pixel, after the final gathers of a
\* run of iterations have added each iteration's radiance and its length2.
SampleRuns == UNION {[1..n -> 0..MaxRadiance] : n \in 1..MaxSamples}

RECURSIVE SumSeq(_)
SumSeq(q) == IF q = <<>> THEN 0 ELSE Head(q) + SumSeq(Tail(q))

InitVariance ==
    /\ Init
    /\ resolution = <<1, 1>>
    /\ traceDepth = 0

VarianceCalls ==
    /\ \E samples \in SampleRuns :
        LET total == SumSeq(samples)
            sqr == SumSeq([k \in 1..Len(samples) |-> length2(samples[k])])
        IN  varianceCall' = [samples |-> samples, iter |-> Len(samples),
                             total |-> total, sqr |-> sqr,
                             stddev |-> aTrousComputeVarianceTexel(total, sqr, Len(samples))]
    /\ UNCHANGED <<buildVars, sceneVars, callVars, accumVars, cacheVars, keyVars,
                   denoiseVars, pc, depth, numPaths, dev_paths, dev_intersections,
                   rayWrites, indexCall>>

SpecVariance == InitVariance /\ [][VarianceCalls]_vars

\* Render iterations with the toggles as built and a bounce budget of
\* DeepTraceDepth.
InitDeep ==
    /\ sortByMaterial = FALSE
    /\ stratifiedSplat = FALSE
    /\ cacheFirstBounce = FALSE
    /\ resolution \in Resolutions
    /\ traceDepth = DeepTraceDepth
    /\ InitState

SpecDeep == InitDeep /\ [][Next]_vars

\* The host runs the depth loop and the final gather to their end.
LoopStep == IntersectStage \/ SortStage \/ ShadeStage \/ PartitionStage \/ FinalGather

SpecLive == Spec /\ WF_vars(LoopStep)
\* ------------------------------------------------------------------ properties
LoopPcs == {"intersect", "sort", "shade", "partition"}
AccumZero == \A p \in Slots :
    /\ dev_directIllum[p] = 0 /\ dev_directIllumSqr[p] = 0
    /\ dev_indirectIllum[p] = 0 /\ dev_indirectIllumSqr[p] = 0

\* C1: the depth loop of pathtrace ends.  The number of active paths never
\* grows from one depth to the next; the loop body runs at most traceDepth + 1
\* times (an active path at depth d > 0 has between 1 and traceDepth - d
\* bounces left); the count is zero when the loop is left, and once the loop
\* is entered the final gather is reached.
C1_LoopBound ==
    /\ pc \in LoopPcs => (numPaths > 0 /\ depth <= traceDepth)
    /\ (pc = "intersect" /\ depth > 0) =>
            \A i \in 0..(numPaths - 1) :
                dev_paths[i].remainingBounces \in 1..(traceDepth - depth)
    /\ pc = "gather" => (numPaths = 0 /\ depth <= traceDepth + 1)
C1_DepthLoopTerminates ==
    /\ []C1_LoopBound
    /\ [][(pc \in LoopPcs) => (numPaths' <= numPaths)]_vars
    /\ (pc \in LoopPcs) ~> (pc = "gather")
\* The loop ran as often as the bounce budget allows.
C1_Witness == pc = "gather" /\ traceDepth >= 2 /\ depth = traceDepth /\ pixelcount >= 2

\* C2: every store of generateRayFromCamera comes from a worker inside the
\* image, goes to a slot below pixelcount, and no two workers store to the
\* same slot.
C2_RayGenInRangeAndDisjoint ==
    \A w \in rayWrites :
        /\ w[1] < resolution[1] /\ w[2] < resolution[2]
        /\ w[3] \in Slots
        /\ \A v \in rayWrites : v[3] = w[3] => v = w

\* C3: from the end of ray generation to the final gather, through the sorts
\* and the compactions, every pixel index is the pixelIndex of exactly one
\* slot of dev_paths.
C3_PixelIndexPermutation ==
    pc \in (LoopPcs \cup {"gather"}) =>
        \A p \in Slots : Cardinality({i \in Slots : dev_paths[i].pixelIndex = p}) = 1
\* The loop ended after sorting and compacting, with some path away from the
\* slot it was generated in.
C3_Witness ==
    /\ pc = "gather" /\ sortByMaterial /\ depth >= 2
    /\ \E i \in Slots : dev_paths[i].pixelIndex # i

\* C4: the final gather adds to every pixel of each of the four accumulation
\* buffers the contribution (direct, its squared length, indirect, its squared
\* length) of the one path whose pixelIndex is that pixel, exactly once.
C4_GatherOncePerPixel ==
    [][pc = "gather" =>
        \A p \in Slots : \E i \in Slots :
            /\ dev_paths[i].pixelIndex = p
            /\ \A j \in Slots : dev_paths[j].pixelIndex = p => j = i
            /\ dev_directIllum'[p] = dev_directIllum[p] + dev_paths[i].directAccum
            /\ dev_directIllumSqr'[p] =
                    dev_directIllumSqr[p] + length2(dev_paths[i].directAccum)
            /\ dev_indirectIllum'[p] = dev_indirectIllum[p] + dev_paths[i].indirectAccum
            /\ dev_indirectIllumSqr'[p] =
                    dev_indirectIllumSqr[p] + length2(dev_paths[i].indirectAccum)]_vars
\* A second iteration was gathered on top of the first, from a path that sat
\* in another slot than its pixel's.
C4_Witness ==
    /\ pc = "idle" /\ iter >= 2
    /\ \E i \in Slots :
        /\ dev_paths[i].pixelIndex # i
        /\ dev_paths[i].directAccum > 0
        /\ dev_directIllum[dev_paths[i].pixelIndex] > dev_paths[i].directAccum

\* C5: in a session the four accumulation buffers are set to zero by
\* pathtraceInit only and changed otherwise by the final gather only, which
\* adds to them; the denoiser, its preparation, the buffer requests, the
\* sample refresh and the teardown leave them as they are.
C5_AccumulationOwnership ==
    [][\/ UNCHANGED accumVars
       \/ /\ FinalGather
          /\ \A p \in Slots :
                /\ dev_directIllum'[p] >= dev_directIllum[p]
                /\ dev_directIllumSqr'[p] >= dev_directIllumSqr[p]
                /\ dev_indirectIllum'[p] >= dev_indirectIllum[p]
                /\ dev_indirectIllumSqr'[p] >= dev_indirectIllumSqr[p]
       \/ /\ pathtraceInit
          /\ AccumZero']_vars
\* Radiance is accumulated and the denoiser, its preparation, a buffer
\* request and the sample refresh have run.
C5_Witness ==
    /\ pc = "idle" /\ ~AccumZero
    /\ dev_stddevBuffer # GarbageStddev
    /\ dev_normalBuffer = "gbuffer"
    /\ dev_samplePool # "garbage"
    /\ handedOut = "defined"

\* C6: when every primary ray misses, after depth 0 every intersection record
\* holds the miss sentinel (t = -1, materialId = -1), shade leaves every path
\* with zero throughput, no bounces and zero accumulators, the compaction
\* leaves no active path, and the final gather leaves the accumulation
\* buffers as they were (all zero in a fresh session).
AllPrimaryMiss == \A i \in Slots : dev_paths[i].lastGeom = MissId
C6_MissState ==
    /\ (pc \in {"sort", "shade"} /\ depth = 0 /\ AllPrimaryMiss) =>
            \A i \in Slots :
                dev_intersections[i].t = -1 /\ dev_intersections[i].materialId = -1
    /\ (pc = "partition" /\ depth = 0 /\ AllPrimaryMiss) =>
            \A i \in Slots :
                /\ dev_paths[i].colorThroughput = 0
                /\ dev_paths[i].remainingBounces = 0
                /\ dev_paths[i].directAccum = 0
                /\ dev_paths[i].indirectAccum = 0
C6_AllMiss ==
    /\ []C6_MissState
    /\ [][/\ (pc = "partition" /\ depth = 0 /\ AllPrimaryMiss) =>
                (numPaths' = 0 /\ pc' = "gather")
          /\ (pc = "gather" /\ depth = 1 /\ AllPrimaryMiss) =>
                (accumVars' = accumVars /\ (AccumZero => AccumZero'))]_vars
\* An iteration with a bounce budget in which every primary ray missed has
\* been gathered.
C6_Witness ==
    /\ pc = "idle" /\ iter >= 1 /\ depth = 1 /\ traceDepth >= 1 /\ pixelcount >= 2
    /\ AllPrimaryMiss /\ AccumZero

\* C7: the engine shade draws from is seeded by the iteration, the pixelIndex
\* of the path and the depth alone: every bounce ray in dev_paths was drawn
\* from the engine of its own pixel.
C7_EngineOfPixel ==
    \A i \in Slots :
        dev_paths[i].ray[1] = "bounce" =>
            /\ dev_paths[i].ray[2] = iter
            /\ dev_paths[i].ray[3] = dev_paths[i].pixelIndex

\* C8: for N > 0 samples, with stratifiedSplat every pixel gets iter mod N;
\* without it the indices a and b of two pixels of one iteration differ by the
\* difference of their hashes modulo N: a + hash(B) = b + hash(A) (mod N), for
\* every iteration and every 32-bit hash value.
C8_IndexPeriodic ==
    LET c == indexCall
        offA == ModU32(c.hashA, c.total)
        offB == ModU32(c.hashB, c.total)
    IN  IF stratifiedSplat
        THEN c.a = c.iter % c.total /\ c.b = c.a
        ELSE (c.a + offB) % c.total = (c.b + offA) % c.total

\* C9: a request for a buffer the operation does not handle ends in a
\* reported error and nothing else: the process is never aborted, no device
\* fault happens and no undefined pixel is handed out.
C9_UnhandledIsReported ==
    pc \notin {"aborted", "faulted"} /\ handedOut # "undefined"

\* C10: a denoiser run for the direct (indirect) category computes the
\* variance from, and filters, the sums getBuffers returns for that category,
\* and leaves the result where getBuffers finds the filtered buffer of that
\* category.
VarianceOf(buf) ==
    IF buf = "DirectSpecularIllumination"
    THEN "DirectSpecularIlluminationVariance" ELSE "IndirectDiffuseIlluminationVariance"
FilteredOf(buf) ==
    IF buf = "DirectSpecularIllumination"
    THEN "FilteredDirectSpecular" ELSE "FilteredIndirectDiffuse"
C10_DenoiserMatchesGetBuffers ==
    [][\A buf \in {"DirectSpecularIllumination", "IndirectDiffuseIllumination"} :
        \A levels \in 0..MaxLevels :
            aTrousCall(buf, levels) =>
                /\ dev_stddevBuffer'.color = getBuffers(VarianceOf(buf)).buf1
                /\ dev_stddevBuffer'.sqr = getBuffers(VarianceOf(buf)).buf2
                /\ filteredMem'[(getBuffers(FilteredOf(buf)).buf1)'] =
                        [src |-> getBuffers(buf).buf1, level |-> levels]]_vars

\* C11: the value aTrousComputeVariance stores for a pixel, which aTrousIter
\* multiplies into the colour term, is exactly 1 when the iteration count is
\* 1 and the unbiased sample variance (sumSqr - |sum|^2 / iter) / (iter - 1)
\* of the accumulated samples when it is greater than 1.
C11_VarianceValue ==
    LET c == varianceCall
    IN  /\ c.iter = 1 => ValueIs(c.stddev, 1, 1)
        /\ c.iter > 1 =>
                ValueIs(c.stddev, (c.iter * c.sqr) - (c.total * c.total),
                        c.iter * (c.iter - 1))

\* C12: whenever shade is launched, with sortByMaterial and cacheFirstBounce
\* either way, the intersection in each active slot is the one computed at
\* this depth for the ray of the path in that slot, and the sort key of the
\* slot is that intersection's material id (the sort having moved keys,
\* intersections and paths alike).
C12_SlotAssociation ==
    pc = "shade" =>
        \A i \in 0..(numPaths - 1) :
            /\ dev_intersections[i] = IntersectionOf(dev_paths[i], dev_paths[i].lastGeom)
            /\ dev_materialSortBuffer[i] = dev_intersections[i].materialId

\* The ping-pong discipline of one aTrous call with the given level count:
\* log is the launches of the call, meanOf the running sum whose mean is
\* filtered, out the allocation the result is expected in and mem the
\* contents of the allocations on return.
PingPong(log, levels, meanOf, out, mem) ==
    /\ Len(log) = levels + 1
    /\ log[1].kernel = "aTrousCopyBuffer" /\ log[1].reads = meanOf
    /\ levels >= 1 =>
            /\ log[2].reads = log[1].writes
            /\ log[2].input = [src |-> meanOf, level |-> 0]
            /\ log[2].stepSize = <<1, 2 * (2 ^ levels)>>
    /\ \A k \in 2..levels :
            /\ log[k + 1].reads = log[k].writes
            /\ log[k + 1].input = [src |-> meanOf, level |-> k - 1]
            /\ log[k + 1].stepSize = <<2 * log[k].stepSize[1], log[k].stepSize[2]>>
    /\ \A k \in 2..(levels + 1) :
            log[k].kernel = "aTrousIter" /\ log[k].reads # log[k].writes
    /\ out = log[levels + 1].writes
    /\ mem[out] = [src |-> meanOf, level |-> levels]

\* C13: in aTrous for category X with L >= 0 levels, level 1 reads the mean
\* of X's running sum, level k + 1 reads the buffer level k wrote with twice
\* its step size, no level reads the buffer it writes, and on return the
\* handle getBuffers gives for the filtered buffer of X designates the output
\* of level L (the mean buffer when L = 0).
C13_LevelsPingPong ==
    [][\A buf \in {"DirectSpecularIllumination", "IndirectDiffuseIllumination"} :
        \A levels \in 0..MaxLevels :
            aTrousCall(buf, levels) =>
                PingPong(aTrousLaunches', levels, getBuffers(buf).buf1,
                         (getBuffers(FilteredOf(buf)).buf1)', filteredMem')]_vars

\* The same discipline for the running sum and the handle aTrous itself
\* selects for the request.
SelectedHandle(buf) ==
    IF aTrousSelect(buf).resultBuf = "dev_filteredIndirectDiffuse"
    THEN dev_filteredIndirectDiffuse ELSE dev_filteredDirectSpecular
PingPongOnSelectedHandle ==
    [][\A buf \in {"DirectSpecularIllumination", "IndirectDiffuseIllumination"} :
        \A levels \in 0..MaxLevels :
            aTrousCall(buf, levels) =>
                PingPong(aTrousLaunches', levels, aTrousSelect(buf).colorBuf,
                         SelectedHandle(buf)', filteredMem')]_vars

\* C15: after any sequence of aTrous calls the filtered-direct, the
\* filtered-indirect and the scratch handle designate three different
\* allocations, the three of pathtraceInit; an aTrous call for one category
\* never writes the allocation getBuffers gives for the filtered buffer of
\* the other category; pathtraceFree releases each of the three exactly once.
OtherOf(buf) ==
    IF buf = "DirectSpecularIllumination"
    THEN "IndirectDiffuseIllumination" ELSE "DirectSpecularIllumination"
HandlesDistinct ==
    /\ {dev_filteredDirectSpecular, dev_filteredIndirectDiffuse, dev_filteredTemp}
            = FilteredAllocs
    /\ dev_filteredDirectSpecular # dev_filteredIndirectDiffuse
    /\ dev_filteredDirectSpecular # dev_filteredTemp
    /\ dev_filteredIndirectDiffuse # dev_filteredTemp
    /\ pc = "freed" =>
            /\ Len(released) = 3
            /\ \A a \in FilteredAllocs :
                    Cardinality({k \in 1..3 : released[k] = a}) = 1
\* No launch of the call writes the allocation kept, whose contents stay.
LeavesAlone(kept) ==
    /\ \A k \in 1..Len(aTrousLaunches') : aTrousLaunches'[k].writes # kept
    /\ filteredMem'[kept] = filteredMem[kept]
C15_FilteredHandles ==
    /\ []HandlesDistinct
    /\ [][\A buf \in {"DirectSpecularIllumination", "IndirectDiffuseIllumination"} :
            \A levels \in 0..MaxLevels :
                aTrousCall(buf, levels) =>
                    LeavesAlone(getBuffers(FilteredOf(OtherOf(buf))).buf1)]_vars

\* The handles stay distinct and released once, and a call leaves alone the
\* allocation behind the filtered handle it did not select.
HandlesOnSelectedHandle ==
    /\ []HandlesDistinct
    /\ [][\A buf \in {"DirectSpecularIllumination", "IndirectDiffuseIllumination"} :
            \A levels \in 0..MaxLevels :
                aTrousCall(buf, levels) => LeavesAlone(SelectedHandle(OtherOf(buf)))]_vars

\* C16: whenever shade is launched at depth d, d < traceDepth, so that the
\* slice of numStratifiedSamples records starting at d * numStratifiedSamples
\* lies inside the pool of traceDepth * numStratifiedSamples records; for
\* every trace depth, 0 included.
C16_SliceInsidePool ==
    pc = "shade" =>
        /\ depth < traceDepth
        /\ \A sqrtNumStratifiedSamples \in 1..MaxSqrtSamples :
            LET n == sqrtNumStratifiedSamples * sqrtNumStratifiedSamples
            IN  ShadeSliceStart(n) + n <= SamplePoolSize(n)

\* Whether a hit of the path before the last one shaded was at a material
\* that is not specular.
Specular == {"specularReflection", "specularTransmission"}
NonSpecularBefore(path) == \E k \in 1..(Len(path.hits) - 1) : path.hits[k] \notin Specular
\* Whether the path has bounced off a material that is not specular, the hit
\* shaded last included (a light ends the path: no bounce).
NonSpecularBounce(path) ==
    \E k \in 1..Len(path.hits) : path.hits[k] \notin (Specular \cup {"emissive"})
IndirectOf(p) == \E i \in Slots : dev_paths[i].pixelIndex = p /\ dev_paths[i].indirectIllum

\* C14 (amended): within an iteration indirectIllum is false after ray
\* generation; after shade has processed a hit it is true exactly when a hit
\* of the path before that one was at a non-specular material (the bounce at
\* the hit just shaded counts from the next hit on); once true it is not
\* reset by any later shade or compaction of the iteration.
C14_FlagState ==
    /\ (pc = "intersect" /\ depth = 0) =>
            \A i \in Slots : ~dev_paths[i].indirectIllum /\ dev_paths[i].hits = <<>>
    /\ pc \in (LoopPcs \cup {"gather"}) =>
            \A i \in Slots : dev_paths[i].indirectIllum <=> NonSpecularBefore(dev_paths[i])
C14_IndirectFlag ==
    /\ []C14_FlagState
    /\ [][(pc \in LoopPcs) => (\A p \in Slots : IndirectOf(p) => (IndirectOf(p))')]_vars
\* A path bounced off a diffuse surface, then off a mirror, was shaded at a
\* third hit and compacted, and is still flagged.
C14_Witness ==
    /\ pc \in {"intersect", "gather"} /\ pixelcount >= 2
    /\ \E i \in Slots :
        /\ Len(dev_paths[i].hits) = 3
        /\ dev_paths[i].hits[1] = "diffuse"
        /\ dev_paths[i].hits[2] = "specularReflection"
        /\ dev_paths[i].indirectIllum
        /\ dev_paths[i].pixelIndex # i

\* C14 as stated: after shade has processed a hit the flag is true exactly
\* when the path has by then undergone at least one non-specular bounce.
C14_FlagAsStated ==
    pc \in (LoopPcs \cup {"gather"}) =>
        \A i \in Slots : dev_paths[i].indirectIllum <=> NonSpecularBounce(dev_paths[i])
====
